---- MODULE Spec2Model ----
(***************************************************************************)
(* Model of the WFC-like grid generator: the world-state manager           *)
(* (apply / revert / get_world_state), the expansion step                  *)
(* WFC_Problem.successors, solution extraction, and the driver             *)
(* generate_single, which runs best_first_search(problem, graph=True).     *)
(*                                                                         *)
(* Tile hashes are small positive integers, 0 is "undecided".  Grids are   *)
(* functions from <<y, x>> to tile hashes.  Random draws of the cost model *)
(* are nondeterministic choices of a cost level.                           *)
(***************************************************************************)
EXTENDS Integers, Sequences, FiniteSets, TLC

(* ------------------------------ bounds --------------------------------- *)

\* Costs are drawn from 0..MaxCost, in units of 1/MaxCost (a cost is a real in [0, 1]).
MaxCost == 1

\* Cap on the number of expansions (calls of successors) of one run.
MaxExpand == 4

(* ----------------------------- constants ------------------------------- *)

\* Python's None.
None == [none |-> TRUE]

(* --------------------------- tile catalogs ----------------------------- *)

\* A 3x3 pattern of tile hashes, row-major: positions 1..9, centre at 5.
Uniform(t) == [i \in 1..9 |-> t]
Ring(c, t) == [i \in 1..9 |-> IF i = 5 THEN c ELSE t]

\* WFC_Sample: tile_data (the tile hashes) and super_tile_data ((pattern, count) pairs).
SampleOne == [tile_data |-> {1}, super_tile_data |-> {<<Uniform(1), 1>>}]
SampleTwo == [tile_data |-> {1, 2},
              super_tile_data |-> {<<Uniform(1), 1>>, <<Ring(2, 1), 1>>}]
SampleThree == [tile_data |-> {1, 2, 3},
                super_tile_data |-> {<<Uniform(1), 1>>, <<Ring(2, 1), 1>>, <<Ring(3, 1), 1>>}]
SampleNoPatterns == [tile_data |-> {1}, super_tile_data |-> {}]

get_tile_data(sample) == sample.tile_data
get_super_tile_data(sample) == sample.super_tile_data

(* -------------------------------- grids -------------------------------- *)

Cells(shape) == (0..(shape[1] - 1)) \X (0..(shape[2] - 1))
ZeroGrid(shape) == [c \in Cells(shape) |-> 0]
Filled(shape, t) == [c \in Cells(shape) |-> t]
With(grid, c, t) == [grid EXCEPT ![c] = t]

\* np.count_nonzero(starting_state)
count_nonzero(grid) == Cardinality({c \in DOMAIN grid : grid[c] # 0})

InBounds(c, shape) == /\ 0 <= c[1] /\ c[1] < shape[1]
                      /\ 0 <= c[2] /\ c[2] < shape[2]

\* The 8 offsets around a cell in the order of the source's comprehension
\* (row-major, centre skipped); positions 2, 4, 5, 7 are the 4 cardinals
\* (indices [1, 3, 4, 6] of the 0-based list).
Around8 == << <<-1, -1>>, <<-1, 0>>, <<-1, 1>>, <<0, -1>>,
              <<0, 1>>, <<1, -1>>, <<1, 0>>, <<1, 1>> >>
Cardinal4 == {2, 4, 5, 7}

\* indices_to_check of update_open_nodes
indices_to_check(c, use8, shape) ==
    {n \in {<<c[1] + Around8[i][1], c[2] + Around8[i][2]>> :
                i \in (IF use8 THEN 1..8 ELSE Cardinal4)} : InBounds(n, shape)}

\* sub_indices_to_check of update_open_nodes: the whole 3x3 block around the
\* neighbour (itself included) with 8 cardinals, the 4 cardinals otherwise
\* (indices [1, 3, 5, 7] of the 9-element list).
sub_indices_to_check(c, use8, shape) ==
    {n \in {<<c[1] + dy, c[2] + dx>> : dy \in {-1, 0, 1}, dx \in {-1, 0, 1}} :
        /\ InBounds(n, shape)
        /\ use8 \/ (n[1] = c[1]) # (n[2] = c[2])}

(* ------------------------- world state manager ------------------------- *)

\* The mutable state of a WFC_Problem that apply / revert touch:
\*   grid   = _temp_world_state,  counts = _tile_counts,
\*   open   = _temp_world_open_super_tiles,
\*   err    = a KeyError / TypeError was raised (the state is then left as it is).
WorldState(grid, counts, open) ==
    [grid |-> grid, counts |-> counts, open |-> open, err |-> FALSE]

Shape(grid) == LET ys == {c[1] : c \in DOMAIN grid}
                   xs == {c[2] : c \in DOMAIN grid}
               IN  <<Cardinality(ys), Cardinality(xs)>>

\* Variant: placing a tile opens every neighbour, decided or not.
update_open_nodes_opens_decided(ws, c, is_reopening, use8) ==
    LET shape == Shape(ws.grid)
        near  == indices_to_check(c, use8, shape)
    IN  IF ws.err THEN ws
        ELSE IF is_reopening
        THEN LET wost == ws.open \cup {c}
                 closing == {n \in near :
                               /\ n \in wost
                               /\ \A m \in sub_indices_to_check(n, use8, shape) :
                                      ws.grid[m] = 0}
             IN  [ws EXCEPT !.open = wost \ closing]
        ELSE IF c \notin ws.open
        THEN [ws EXCEPT !.err = TRUE]
        ELSE [ws EXCEPT !.open = (ws.open \ {c}) \cup near]

update_open_nodes(ws, c, is_reopening, use8) ==
    LET shape == Shape(ws.grid)
        near  == indices_to_check(c, use8, shape)
    IN  IF ws.err THEN ws
        ELSE IF is_reopening
        THEN LET wost == ws.open \cup {c}
                 closing == {n \in near :
                               /\ n \in wost
                               /\ \A m \in sub_indices_to_check(n, use8, shape) :
                                      ws.grid[m] = 0}
             IN  [ws EXCEPT !.open = wost \ closing]
        ELSE IF c \notin ws.open
        THEN [ws EXCEPT !.err = TRUE]
        ELSE [ws EXCEPT !.open = (ws.open \ {c}) \cup {n \in near : ws.grid[n] = 0}]

revert_action(ws, node_action, use8) ==
    LET pos == node_action[1]
    IN  IF ws.err THEN ws
        ELSE IF node_action = <<>> \/ ws.grid[pos] \notin DOMAIN ws.counts
        THEN [ws EXCEPT !.err = TRUE]
        ELSE update_open_nodes(
                 [ws EXCEPT !.counts[ws.grid[pos]] = @ - 1, !.grid[pos] = 0],
                 pos, TRUE, use8)

apply_action(ws, node_action, use8) ==
    LET pos   == node_action[1]
        state == node_action[2]
    IN  IF ws.err THEN ws
        ELSE IF state \notin DOMAIN ws.counts
        THEN [ws EXCEPT !.grid[pos] = state, !.err = TRUE]
        ELSE update_open_nodes(
                 [ws EXCEPT !.grid[pos] = state, !.counts[state] = @ + 1],
                 pos, FALSE, use8)

(* ------------------------------ search nodes --------------------------- *)

\* py_search Node(state, parent, action, node_cost, extra); state = (depth, hash).
Node(state, parent, action, node_cost, extra) ==
    [state |-> state, parent |-> parent, action |-> action,
     node_cost |-> node_cost, extra |-> extra]

\* Problem.initial as set by super().__init__(initial=(0, 0), initial_cost=0, extra=0)
InitialNode == Node(<<0, 0>>, None, <<>>, 0, 0)

RECURSIVE depth(_)
depth(node) == IF node.parent = None THEN 0 ELSE 1 + depth(node.parent)

RECURSIVE Ancestor(_, _)
Ancestor(node, k) == IF k = 0 THEN node ELSE Ancestor(node.parent, k - 1)

Min(a, b) == IF a <= b THEN a ELSE b

\* First loop of get_world_state: revert k actions walking up from p_node.
RECURSIVE RevertUp(_, _, _, _)
RevertUp(ws, p_node, k, use8) ==
    IF k = 0 THEN ws
    ELSE RevertUp(revert_action(ws, p_node.action, use8), p_node.parent, k - 1, use8)

\* Third loop: walk both nodes up from depth i until their states agree.
RECURSIVE CommonAncestor(_, _, _, _, _)
CommonAncestor(ws, p_node, c_node, i, use8) ==
    IF p_node.state = c_node.state THEN [ws |-> ws, common_depth |-> i]
    ELSE IF i = 0 THEN [ws |-> revert_action(ws, p_node.action, use8), common_depth |-> 0]
    ELSE CommonAncestor(revert_action(ws, p_node.action, use8),
                        p_node.parent, c_node.parent, i - 1, use8)

\* Last loop: apply, root to leaf, the k lowest actions of current_node's path.
RECURSIVE ApplyDown(_, _, _, _)
ApplyDown(ws, c_node, k, use8) ==
    IF k = 0 THEN ws
    ELSE apply_action(ApplyDown(ws, c_node.parent, k - 1, use8), c_node.action, use8)

get_world_state(ws, last_node, current_node, use8) ==
    LET start_depth == Min(depth(last_node), depth(current_node))
        ws1 == RevertUp(ws, last_node, depth(last_node) - start_depth, use8)
        p_node == Ancestor(last_node, depth(last_node) - start_depth)
        c_node == Ancestor(current_node, depth(current_node) - start_depth)
        found == CommonAncestor(ws1, p_node, c_node, start_depth, use8)
    IN  ApplyDown(found.ws, current_node,
                  depth(current_node) - found.common_depth, use8)

(* ----------------------- adjacency query and costs --------------------- *)

\* adjacent_states of get_cell_potential_states_and_costs: the 8 neighbours
\* in Around8 order, 0 for an out-of-bounds position.
adjacent_states(c, world_state) ==
    [i \in 1..8 |->
        LET n == <<c[1] + Around8[i][1], c[2] + Around8[i][2]>>
        IN  IF n \in DOMAIN world_state THEN world_state[n] ELSE 0]

\* Position in the 3x3 pattern of the i-th neighbour (the centre is position 5).
PatternPos(i) == IF i <= 4 THEN i ELSE i + 1

\* Variant: all eight neighbours are considered in either mode.
is_possible_over_8(super_tile, adj, use8) ==
    \A i \in 1..8 : adj[i] = 0 \/ super_tile[PatternPos(i)] = adj[i]

\* is_possible: every considered non-zero neighbour agrees with the pattern.
is_possible(super_tile, adj, use8) ==
    \A i \in (IF use8 THEN 1..8 ELSE Cardinal4) :
        adj[i] = 0 \/ super_tile[PatternPos(i)] = adj[i]

RECURSIVE SumCounts(_)
SumCounts(pairs) ==
    IF pairs = {} THEN 0
    ELSE LET p == CHOOSE q \in pairs : TRUE
         IN  p[2] + SumCounts(pairs \ {p})

\* pcs of get_cell_potential_states_{8,4}cardinals: centre tile -> summed count.
get_cell_potential_states(sample, adj, use8) ==
    LET matching == {st \in get_super_tile_data(sample) : is_possible(st[1], adj, use8)}
    IN  [t \in {st[1][5] : st \in matching} |->
            SumCounts({st \in matching : st[1][5] = t})]

\* map_to_probabilities: probability of a candidate as <<count, total>>.
map_to_probabilities(pcs) ==
    LET total_counts == SumCounts({<<t, pcs[t]>> : t \in DOMAIN pcs})
    IN  [t \in DOMAIN pcs |-> <<pcs[t], total_counts>>]

\* The normalised Shannon entropy of the candidate distribution: 0 for fewer
\* than two candidates (the source's special case), 1 for a uniform
\* distribution of two or more.  The catalogs of this model give no other.
Entropy(probabilities) ==
    CASE Cardinality(DOMAIN probabilities) <= 1 -> 0
      [] /\ Cardinality(DOMAIN probabilities) > 1
         /\ \A s, t \in DOMAIN probabilities : probabilities[s] = probabilities[t] -> 1

\* get_cell_potential_states_and_costs without the random part:
\* (tiles, probabilities, entropy); tiles = {} stands for ([], None, None).
get_cell_potential_states_and_costs(sample, c, world_state, use8) ==
    LET probabilities == map_to_probabilities(
            get_cell_potential_states(sample, adjacent_states(c, world_state), use8))
    IN  [tiles |-> DOMAIN probabilities, probabilities |-> probabilities,
         entropy |-> Entropy(probabilities)]

(* ------------------------------ node identity -------------------------- *)

CellIndex(c, shape) == c[1] * shape[2] + c[2]

RECURSIVE Encode(_, _, _, _)
Encode(grid, cells, shape, base) ==
    IF cells = {} THEN 0
    ELSE LET c == CHOOSE k \in cells : TRUE
         IN  grid[c] * base ^ CellIndex(c, shape) + Encode(grid, cells \ {c}, shape, base)

\* world_state_hash: the 4-byte digest of the grid's bytes, modelled as the
\* positional code of the grid, which is below 2^32 and free of collisions
\* for the grids of this model (two grids share a hash iff they are equal).
world_state_hash(grid, base) == Encode(grid, DOMAIN grid, Shape(grid), base)

HashBase(sample, starting) ==
    LET used == get_tile_data(sample) \cup {starting[c] : c \in DOMAIN starting}
    IN  1 + CHOOSE m \in used : \A t \in used : t <= m

(* ------------------------------ node value ----------------------------- *)

\* node_value(node) = ValueNum / (MaxCost * ValueDen):
\*   rev_depth * w1 + node_cost * w2 + (extra / (1 + depth)) * w3
ValueDen(node) == 1 + depth(node)

\* Variant: the depth term does not take the depth off.
ValueNumFlat(node, t, w) ==
    (MaxCost * (1 + t) * w[1] + node.node_cost * w[2]) * ValueDen(node)
        + MaxCost * node.extra * w[3]

\* Variant: the depth term grows with the depth.
ValueNumByDepth(node, t, w) ==
    (MaxCost * (1 + depth(node)) * w[1] + node.node_cost * w[2]) * ValueDen(node)
        + MaxCost * node.extra * w[3]

ValueNum(node, t, w) ==
    (MaxCost * (1 + t - depth(node)) * w[1] + node.node_cost * w[2]) * ValueDen(node)
        + MaxCost * node.extra * w[3]

\* node_value(a) <= node_value(b)
ValueLeq(a, b, t, w) ==
    ValueNum(a, t, w) * ValueDen(b) <= ValueNum(b, t, w) * ValueDen(a)

(* ------------------------- root frontier, solution --------------------- *)

\* relative_indices_to_check of open_nodes_on_depth_zero: the offsets are those
\* of range(3) x range(3) without (1, 1), added to the cell as they are (the
\* cell is the top-left corner of the block, not its centre).
RelativeAround == << <<0, 0>>, <<0, 1>>, <<0, 2>>, <<1, 0>>,
                     <<1, 2>>, <<2, 0>>, <<2, 1>>, <<2, 2>> >>

relative_indices_to_check(c, use8, shape) ==
    {n \in {<<c[1] + RelativeAround[i][1], c[2] + RelativeAround[i][2]>> :
                i \in (IF use8 THEN 1..8 ELSE Cardinal4)} : InBounds(n, shape)}

open_nodes_on_depth_zero(ws, starting, use8) ==
    LET shape == Shape(ws.grid)
    IN  IF starting = None
        THEN [ws EXCEPT !.open = @ \cup {<<shape[1] \div 2, shape[2] \div 2>>}]
        ELSE [ws EXCEPT !.open = @ \cup
                 {c \in DOMAIN starting :
                     /\ starting[c] = 0
                     /\ \E n \in relative_indices_to_check(c, use8, shape) :
                           starting[n] # 0}]

\* The loop of get_solution_state: d steps leaf to root, each writing its action.
RECURSIVE WritePath(_, _, _)
WritePath(encoded_state, node, d) ==
    IF d = 0 THEN encoded_state
    ELSE WritePath(IF node.action[2] # 0
                   THEN With(encoded_state, node.action[1], node.action[2])
                   ELSE encoded_state,
                   node.parent, d - 1)

\* Variant: the result is always seeded with the zero grid.
get_solution_state_from_zero(node, starting, shape) ==
    WritePath(ZeroGrid(shape), node, depth(node))

get_solution_state(node, starting, shape) ==
    WritePath(IF starting = None THEN ZeroGrid(shape) ELSE starting, node, depth(node))

(* ------------------------------ inputs --------------------------------- *)

\* i_kwargs of generate_single.  w = <<reverse_depth_w, node_cost_w, path_entropy_average_w>>.
Kwargs(sample, starting_state, use_8_cardinals, plateau_check_interval, w) ==
    [sample |-> sample, starting_state |-> starting_state,
     use_8_cardinals |-> use_8_cardinals,
     plateau_check_interval |-> plateau_check_interval, w |-> w]

DefaultWeights == <<1, 1, 0>>
CostOnlyWeights == <<0, 1, 0>>
EntropyWeights == <<1, 0, 1>>
DepthOnlyWeights == <<1, 0, 0>>

Inputs ==
    {Kwargs(SampleTwo, ZeroGrid(<<2, 2>>), u, p, w) :
        u \in BOOLEAN, p \in {-1, 0}, w \in {DefaultWeights, CostOnlyWeights}}
    \cup {Kwargs(SampleTwo, ZeroGrid(<<1, 3>>), FALSE, p, w) :
        p \in {0, 1, 2}, w \in {DefaultWeights, EntropyWeights}}
    \cup {Kwargs(SampleTwo, ZeroGrid(shape), FALSE, -1, DepthOnlyWeights) :
        shape \in {<<1, 3>>, <<2, 2>>}}
    \cup {Kwargs(SampleTwo, With(ZeroGrid(<<2, 2>>), c, 1), u, -1, DefaultWeights) :
        c \in {<<0, 0>>, <<1, 1>>}, u \in BOOLEAN}
    \cup {Kwargs(SampleTwo, With(ZeroGrid(<<1, 3>>), <<0, 2>>, 1), u, -1, DefaultWeights) :
        u \in BOOLEAN}
    \cup {Kwargs(SampleThree, ZeroGrid(<<1, 3>>), FALSE, -1, DefaultWeights)}
    \cup {Kwargs(SampleNoPatterns, ZeroGrid(<<2, 2>>), FALSE, p, DefaultWeights) :
        p \in {-1, 1}}
    \cup {Kwargs(SampleOne, Filled(<<2, 2>>, 1), FALSE, -1, DefaultWeights),
          Kwargs(SampleOne, ZeroGrid(<<2, 2>>), FALSE, -1, DefaultWeights)}

(* ------------------------------- state --------------------------------- *)

VARIABLES
    pc,                          \* "init", "search", "done", "error" (the constructor
                                 \* raised), "crashed" (an expansion raised)
    args,                        \* i_kwargs
    number_of_tiles_to_process,  \* _number_of_tiles_to_process
    starting_state,              \* _starting_state (None for an empty start)
    temp_world_state,            \* _temp_world_state
    temp_world_open_super_tiles, \* _temp_world_open_super_tiles
    tile_counts,                 \* _tile_counts
    best_node,                   \* _best_node
    prev_best_depth,             \* _prev_best_depth
    last_node,                   \* _last_node
    plateau_check_ticker,        \* _plateau_check_ticker
    plateau_stop_steps,          \* twice _plateau_stop_steps (the default is a half-integer)
    stop,                        \* _stop
    stop_proxy,                  \* the shared cancellation flag
    ticker_proxy,                \* the shared progress counter
    fringe,                      \* the open set of best_first_search
    closed,                      \* its closed map: node state -> node_cost of the kept node
    result,                      \* what generate_single returns
    outcome,                     \* how the search ended
    expansions,                  \* number of calls of successors that passed the interrupt check
    budget,                      \* how many expansions the run is followed for
    batch,                       \* the instances of a parallel batch (None for a single run)
    catalog,                     \* a WFC_Sample under construction (None in a run)
    annealing,                   \* the temperature controller followed on its own
                                 \* (None elsewhere)
    freq_adjust,                 \* the depth adjustment of the frequencies followed on
                                 \* its own (None elsewhere)
    query,                       \* the adjacency query and its cache followed on their
                                 \* own (None elsewhere)
    last_step,                   \* which return of successors the last expansion took
    jump                         \* how the last expanded node lies to the one before it

vars == <<pc, args, number_of_tiles_to_process, starting_state, temp_world_state,
          temp_world_open_super_tiles, tile_counts, best_node, prev_best_depth,
          last_node, plateau_check_ticker, plateau_stop_steps, stop, stop_proxy,
          ticker_proxy, fringe, closed, result, outcome, expansions, budget,
          batch, catalog, annealing, freq_adjust, query, last_step, jump>>

static == <<args, number_of_tiles_to_process, starting_state, plateau_stop_steps, budget,
            batch, catalog, annealing, freq_adjust, query>>

InitWith(inputs) ==
    /\ pc = "init"
    /\ args \in inputs
    /\ number_of_tiles_to_process = 0
    /\ starting_state = None
    /\ temp_world_state = None
    /\ temp_world_open_super_tiles = {}
    /\ tile_counts = None
    /\ best_node = None
    /\ prev_best_depth = 0
    /\ last_node = None
    /\ plateau_check_ticker = 0
    /\ plateau_stop_steps = 0
    /\ stop = FALSE
    /\ stop_proxy = FALSE
    /\ ticker_proxy = 0
    /\ fringe = {}
    /\ closed = <<>>
    /\ result = None
    /\ outcome = "none"
    /\ expansions = 0
    /\ last_step = "none"
    /\ jump = "none"

\* Runs over the catalogs above, each followed for MaxExpand expansions.
Init ==
    /\ InitWith(Inputs)
    /\ budget = MaxExpand
    /\ batch = None
    /\ catalog = None
    /\ annealing = None
    /\ freq_adjust = None
    /\ query = None

(* --------------------------- WFC_Problem.__init__ ---------------------- *)

\* The system solved for _tile_freq_adjustment_poly:
\* a = [[0, 0, 1], [t^2, t, 1], [(t/2)^2, t/2, 1]], its last row times 4.
PolyMatrix(t) == << <<0, 0, 1>>, <<t * t, t, 1>>, <<t * t, 2 * t, 4>> >>

Det3(a) == a[1][1] * (a[2][2] * a[3][3] - a[2][3] * a[3][2])
         - a[1][2] * (a[2][1] * a[3][3] - a[2][3] * a[3][1])
         + a[1][3] * (a[2][1] * a[3][2] - a[2][2] * a[3][1])

\* np.linalg.solve raises LinAlgError on a singular matrix.
SolveRaises(t) == Det3(PolyMatrix(t)) = 0

TilesToProcess(starting) == Cardinality(DOMAIN starting) - count_nonzero(starting)

\* generate_single: the constructor succeeds and best_first_search pushes the
\* initial node.
Construct ==
    /\ pc = "init"
    /\ ~SolveRaises(TilesToProcess(args.starting_state))
    /\ pc' = "search"
    /\ number_of_tiles_to_process' = TilesToProcess(args.starting_state)
    /\ temp_world_state' = args.starting_state
    /\ starting_state' = IF count_nonzero(args.starting_state) > 0
                         THEN args.starting_state ELSE None
    /\ temp_world_open_super_tiles' = {}
    /\ plateau_stop_steps' =
          IF args.plateau_check_interval = -1
          THEN Shape(args.starting_state)[1] * Shape(args.starting_state)[2]
          ELSE 2 * args.plateau_check_interval
    /\ tile_counts' = [t \in get_tile_data(args.sample) |-> 0]
    /\ fringe' = {InitialNode}
    /\ closed' = [s \in {InitialNode.state} |-> InitialNode.node_cost]
    /\ UNCHANGED <<args, best_node, prev_best_depth, last_node, plateau_check_ticker,
                   stop, stop_proxy, ticker_proxy, result, outcome, expansions, budget,
                   batch, catalog, annealing, freq_adjust, query, last_step, jump>>

\* The constructor raises (LinAlgError): no problem object, no result.
ConstructFails ==
    /\ pc = "init"
    /\ SolveRaises(TilesToProcess(args.starting_state))
    /\ pc' = "error"
    /\ UNCHANGED <<args, number_of_tiles_to_process, starting_state, temp_world_state,
                   temp_world_open_super_tiles, tile_counts, best_node, prev_best_depth,
                   last_node, plateau_check_ticker, plateau_stop_steps, stop, stop_proxy,
                   ticker_proxy, fringe, closed, result, outcome, expansions, budget,
                   batch, catalog, annealing, freq_adjust, query, last_step, jump>>

\* waiting_loop: the host interrupt is propagated to the shared flag.
Interrupt ==
    /\ pc \in {"init", "search"}
    /\ ~stop_proxy
    /\ stop_proxy' = TRUE
    /\ UNCHANGED <<pc, args, number_of_tiles_to_process, starting_state, temp_world_state,
                   temp_world_open_super_tiles, tile_counts, best_node, prev_best_depth,
                   last_node, plateau_check_ticker, plateau_stop_steps, stop,
                   ticker_proxy, fringe, closed, result, outcome, expansions, budget,
                   batch, catalog, annealing, freq_adjust, query, last_step, jump>>

(* --------------------------- successors(node) ------------------------- *)

WS == WorldState(temp_world_state, tile_counts, temp_world_open_super_tiles)

\* fringe.pop() of the priority queue: a node of least node_value (which of
\* several least nodes comes first is left open).
Popped(node) ==
    /\ node \in fringe
    /\ \A m \in fringe : ValueLeq(node, m, number_of_tiles_to_process, args.w)

\* Variant: a node as deep as the best node replaces it.
EnteredTiesToLatest(node) ==
    LET root  == depth(node) = 0
        ws1   == IF root
                 THEN open_nodes_on_depth_zero(WS, starting_state, args.use_8_cardinals)
                 ELSE get_world_state(WS, last_node, node, args.use_8_cardinals)
        best0 == IF root THEN node ELSE best_node
        advanced == depth(node) >= depth(best0)
    IN  [ws |-> ws1,
         best |-> IF advanced THEN node ELSE best0,
         ticker |-> IF advanced THEN ticker_proxy + 1 ELSE ticker_proxy,
         cum_entropy |-> IF root THEN 0 ELSE node.parent.extra]

\* successors up to the best-node update (lines 413-429): the materialized
\* world state, the best node, the progress counter and cum_entropy.
Entered(node) ==
    LET root  == depth(node) = 0
        ws1   == IF root
                 THEN open_nodes_on_depth_zero(WS, starting_state, args.use_8_cardinals)
                 ELSE get_world_state(WS, last_node, node, args.use_8_cardinals)
        best0 == IF root THEN node ELSE best_node
        advanced == depth(node) > depth(best0)
    IN  [ws |-> ws1,
         best |-> IF advanced THEN node ELSE best0,
         ticker |-> IF advanced THEN ticker_proxy + 1 ELSE ticker_proxy,
         cum_entropy |-> IF root THEN 0 ELSE node.parent.extra]

\* The move get_world_state has to make from last_node to node.
JumpKind(last, node) ==
    CASE depth(node) = 0 -> "root"
      [] depth(node) > 0 /\ node.parent = last -> "child"
      [] depth(node) > 0 /\ node.parent # last /\ depth(node) < depth(last) -> "shallower"
      [] depth(node) > 0 /\ node.parent # last /\ depth(node) >= depth(last)
            /\ node.parent = last.parent -> "sibling"
      [] OTHER -> "branch"

\* Variant: the comparison is strict.
IsCompleteStrict(node) == depth(node) > number_of_tiles_to_process

IsComplete(node) == depth(node) >= number_of_tiles_to_process

\* Variant: the ticker has to pass the threshold.
PlateauDueStrict == /\ plateau_stop_steps > 0
                    /\ 2 * (plateau_check_ticker + 1) > plateau_stop_steps

\* The plateau check is due at this expansion (the ticker is incremented first).
PlateauDue == /\ plateau_stop_steps > 0
              /\ 2 * (plateau_check_ticker + 1) >= plateau_stop_steps

PlateauStops(e) == PlateauDue /\ prev_best_depth = depth(e.best)

\* What get_cell_potential_states_and_costs gives for each frontier cell.
potential_collapses(ws) ==
    [c \in ws.open |->
        get_cell_potential_states_and_costs(args.sample, c, ws.grid,
                                            args.use_8_cardinals)]

\* Variant: a dead end only when no frontier cell has a candidate.
IsDeadEndWhenAllEmpty(collapses) ==
    \/ DOMAIN collapses = {}
    \/ \A c \in DOMAIN collapses : collapses[c].tiles = {}

IsDeadEnd(collapses) ==
    \/ DOMAIN collapses = {}
    \/ \E c \in DOMAIN collapses : collapses[c].tiles = {}

ChildKeys(collapses) ==
    UNION {{<<c, t>> : t \in collapses[c].tiles} : c \in DOMAIN collapses}

\* The costs one expansion can draw: every candidate of a cell without
\* entropy costs 0; the other candidates of the expansion draw one common level.
CostDraws(collapses) ==
    {[k \in ChildKeys(collapses) |->
         IF collapses[k[1]].entropy = 0 THEN 0 ELSE level] : level \in 0..MaxCost}

\* The nodes the generator yields, given the costs drawn for them.
Children(node, e, collapses, costs) ==
    {Node(<<depth(node) + 1,
            world_state_hash(With(e.ws.grid, k[1], k[2]),
                             HashBase(args.sample, args.starting_state))>>,
          node, k, costs[k],
          e.cum_entropy + collapses[k[1]].entropy) : k \in ChildKeys(collapses)}

\* Variant: tree search, every yielded node is pushed.
PushedAll(children) == children

\* The loop of graph search over the yielded nodes: a node is pushed when its
\* state is new or it is cheaper than the node kept for that state.
Pushed(children) ==
    {s \in children : s.state \notin DOMAIN closed \/ s.node_cost < closed[s.state]}

ClosedAfter(pushed) ==
    [st \in DOMAIN closed \cup {s.state : s \in pushed} |->
        IF \E s \in pushed : s.state = st
        THEN (CHOOSE s \in pushed : s.state = st).node_cost
        ELSE closed[st]]

\* Variant: the interrupt check is missing.
ReadyWithoutCheck(node) ==
    /\ pc = "search"
    /\ ~stop
    /\ expansions < budget
    /\ Popped(node)

\* The search loop pops `node`, the goal test fails and successors(node)
\* passes its interrupt check.
Ready(node) ==
    /\ pc = "search"
    /\ ~stop
    /\ ~stop_proxy
    /\ expansions < budget
    /\ Popped(node)

\* get_world_state raises (KeyError of wost.remove): the exception leaves
\* successors, best_first_search and generate_single; grid, counters and
\* frontier stay as they were when it was raised, _last_node is not yet set.
ExpandRaises ==
    \E node \in {n \in fringe : Ready(n)} :
        \E e \in {Entered(node)} :
            /\ e.ws.err
            /\ pc' = "crashed"
            /\ temp_world_state' = e.ws.grid
            /\ tile_counts' = e.ws.counts
            /\ temp_world_open_super_tiles' = e.ws.open
            /\ fringe' = fringe \ {node}
            /\ expansions' = expansions + 1
            /\ last_step' = "raised"
            /\ jump' = JumpKind(last_node, node)
            /\ UNCHANGED <<static, best_node, prev_best_depth, last_node,
                           plateau_check_ticker, stop, stop_proxy, ticker_proxy,
                           closed, result, outcome>>

\* The part every expansion shares that materializes its node.
Expanding(node, e, step) ==
    /\ ~e.ws.err
    /\ pc' = "search"
    /\ tile_counts' = e.ws.counts
    /\ temp_world_open_super_tiles' = e.ws.open
    /\ best_node' = e.best
    /\ last_node' = node
    /\ expansions' = expansions + 1
    /\ last_step' = step
    /\ jump' = JumpKind(last_node, node)
    /\ UNCHANGED <<static, stop_proxy, result, outcome>>

\* depth >= _number_of_tiles_to_process: all tiles filled.
ExpandComplete ==
    \E node \in {n \in fringe : Ready(n)} :
        \E e \in {Entered(node)} :
            /\ Expanding(node, e, "complete")
            /\ IsComplete(node)
            /\ stop' = TRUE
            /\ ticker_proxy' = e.ticker
            /\ temp_world_state' = e.ws.grid
            /\ fringe' = fringe \ {node}
            /\ UNCHANGED <<plateau_check_ticker, prev_best_depth, closed>>

\* Variant: a plateau stop leaves the progress counter as it is.
PlateauTickerKeeps(e) == e.ticker

\* ticker_proxy.get() + _number_of_tiles_to_process - _best_node.depth()
PlateauTicker(e) == e.ticker + number_of_tiles_to_process - depth(e.best)

\* The plateau check finds the best depth unchanged.
ExpandPlateau ==
    \E node \in {n \in fringe : Ready(n)} :
        \E e \in {Entered(node)} :
            /\ Expanding(node, e, "plateau")
            /\ ~IsComplete(node)
            /\ PlateauStops(e)
            /\ stop' = TRUE
            /\ plateau_check_ticker' = plateau_check_ticker + 1
            /\ ticker_proxy' = PlateauTicker(e)
            /\ temp_world_state' = e.ws.grid
            /\ fringe' = fringe \ {node}
            /\ UNCHANGED <<prev_best_depth, closed>>

\* Variant: a check that passes leaves the reference depth as it is.
PlateauPassesKeepsReference(e) ==
    /\ ~PlateauStops(e)
    /\ plateau_check_ticker' =
          IF plateau_stop_steps > 0
          THEN (IF PlateauDue THEN 0 ELSE plateau_check_ticker + 1)
          ELSE plateau_check_ticker
    /\ prev_best_depth' = prev_best_depth

\* The plateau bookkeeping of an expansion that goes on to the frontier.
PlateauPasses(e) ==
    /\ ~PlateauStops(e)
    /\ plateau_check_ticker' =
          IF plateau_stop_steps > 0
          THEN (IF PlateauDue THEN 0 ELSE plateau_check_ticker + 1)
          ELSE plateau_check_ticker
    /\ prev_best_depth' = IF PlateauDue THEN depth(e.best) ELSE prev_best_depth

\* Empty frontier, or a frontier cell without candidates: no successors.
ExpandDeadEnd ==
    \E node \in {n \in fringe : Ready(n)} :
        \E e \in {Entered(node)} :
            /\ Expanding(node, e, "dead_end")
            /\ ~IsComplete(node)
            /\ PlateauPasses(e)
            /\ IsDeadEnd(potential_collapses(e.ws))
            /\ ticker_proxy' = e.ticker
            /\ temp_world_state' = e.ws.grid
            /\ fringe' = fringe \ {node}
            /\ UNCHANGED <<stop, closed>>

\* Variant: the placement of the last pair is not cleared.
GridAfterYieldsKeepsLast(grid, collapses) ==
    LET last == CHOOSE k \in ChildKeys(collapses) : TRUE
    IN  With(grid, last[1], last[2])

\* The grid when the generator is exhausted: every cell that was given a
\* hypothetical placement (every frontier cell) has been set to 0 at line 473.
GridAfterYields(grid, collapses) ==
    [c \in DOMAIN grid |-> IF c \in DOMAIN collapses THEN 0 ELSE grid[c]]

\* One child per (frontier cell, candidate tile); every hypothetical
\* placement is written to the grid, hashed and cleared to 0 again.
ExpandChildren ==
    \E node \in {n \in fringe : Ready(n)} :
        \E e \in {Entered(node)} : \E collapses \in {potential_collapses(e.ws)} :
            /\ Expanding(node, e, "children")
            /\ ~IsComplete(node)
            /\ PlateauPasses(e)
            /\ ~IsDeadEnd(collapses)
            /\ \E costs \in CostDraws(collapses) :
                  LET pushed == Pushed(Children(node, e, collapses, costs))
                  IN  /\ fringe' = (fringe \ {node}) \cup pushed
                      /\ closed' = ClosedAfter(pushed)
            /\ ticker_proxy' = e.ticker
            /\ temp_world_state' = GridAfterYields(e.ws.grid, collapses)
            /\ UNCHANGED stop

\* Variant: the interrupt check comes after the world state and the best node
\* of the popped node are set up.
ExpandInterruptedLate ==
    /\ pc = "search"
    /\ ~stop
    /\ stop_proxy
    /\ \E node \in fringe :
          LET e == Entered(node)
          IN  /\ Popped(node)
              /\ temp_world_state' = e.ws.grid
              /\ temp_world_open_super_tiles' = e.ws.open
              /\ tile_counts' = e.ws.counts
              /\ best_node' = e.best
              /\ last_node' = node
    /\ pc' = "done"
    /\ outcome' = "cancelled"
    /\ result' = None
    /\ UNCHANGED <<static, prev_best_depth, plateau_check_ticker, stop, stop_proxy,
                   ticker_proxy, fringe, closed, expansions, last_step, jump>>

\* The interrupt check at the head of successors raises InterruptedError;
\* generate_single returns None.  (The node popped for this call, like the one
\* popped for the goal test below, is not looked at again: the open set is
\* left as it is.)
ExpandInterrupted ==
    /\ pc = "search"
    /\ ~stop
    /\ stop_proxy
    /\ fringe # {}
    /\ pc' = "done"
    /\ outcome' = "cancelled"
    /\ result' = None
    /\ UNCHANGED <<static, temp_world_state, temp_world_open_super_tiles, tile_counts,
                   best_node, prev_best_depth, last_node, plateau_check_ticker, stop,
                   stop_proxy, ticker_proxy, fringe, closed, expansions, last_step, jump>>

(* --------------------------- end of the search ------------------------- *)

Returned(how) ==
    /\ pc' = "done"
    /\ outcome' = how
    /\ result' = get_solution_state(best_node, starting_state, Shape(temp_world_state))
    /\ UNCHANGED <<static, temp_world_state, temp_world_open_super_tiles, tile_counts,
                   best_node, prev_best_depth, last_node, plateau_check_ticker, stop,
                   stop_proxy, ticker_proxy, fringe, closed, expansions, last_step, jump>>

\* goal_test (= _stop) holds for the next popped node: next() returns.
FinishGoal ==
    /\ pc = "search"
    /\ stop
    /\ fringe # {}
    /\ Returned("solution")

\* The open set is empty: StopIteration, "Exhausted all possibilities".
FinishExhausted ==
    /\ pc = "search"
    /\ fringe = {}
    /\ Returned("exhausted")

Next ==
    \/ Construct
    \/ ConstructFails
    \/ Interrupt
    \/ ExpandComplete
    \/ ExpandPlateau
    \/ ExpandDeadEnd
    \/ ExpandChildren
    \/ ExpandInterrupted
    \/ ExpandRaises
    \/ FinishGoal
    \/ FinishExhausted

Spec == Init /\ [][Next]_vars

(* ------------------- runs over a one-tile catalog --------------------- *)

OneTileShapes == {<<1, 1>>, <<1, 2>>, <<2, 1>>, <<1, 3>>, <<2, 2>>, <<2, 3>>}

\* One tile, one pattern with that tile at every position; no starting tile,
\* default plateau interval and weights.
OneTileInputs ==
    {Kwargs(SampleOne, ZeroGrid(shape), u, -1, DefaultWeights) :
        shape \in OneTileShapes, u \in BOOLEAN}

NumCells == Cardinality(DOMAIN args.starting_state)

\* These runs are followed to their end and never cancelled.
InitOneTile ==
    /\ InitWith(OneTileInputs)
    /\ budget = 2 * NumCells + 1
    /\ batch = None
    /\ catalog = None
    /\ annealing = None
    /\ freq_adjust = None
    /\ query = None

NextOneTile ==
    \/ Construct
    \/ ExpandComplete
    \/ ExpandPlateau
    \/ ExpandChildren
    \/ FinishGoal
    \/ FinishExhausted

\* generate_single runs the search in one thread until next() returns.
SpecOneTile == InitOneTile /\ [][NextOneTile]_vars /\ WF_vars(NextOneTile)

(* ----------------- a batch of instances (WFC_GenParallel) -------------- *)

\* Number of instances of the batch (max_len of gen).
NumInstances == 2

Instances == 1..NumInstances

\* per_gen_inputs: a one-element list of every input, broadcast to all instances.
BatchInputs ==
    {Kwargs(SampleTwo, ZeroGrid(<<1, 3>>), FALSE, p, DefaultWeights) : p \in {-1, 0}}

\* The variables of the single run, which a batch leaves alone.
single_vars == <<pc, args, number_of_tiles_to_process, starting_state, temp_world_state,
                 temp_world_open_super_tiles, tile_counts, best_node, prev_best_depth,
                 last_node, plateau_check_ticker, plateau_stop_steps, stop, fringe,
                 closed, result, outcome, expansions, budget, last_step, jump>>

\* What an instance of the batch keeps of its WFC_Problem: where it is in
\* successors (pos), the depth of _best_node (best), _plateau_check_ticker
\* (tick), _prev_best_depth (prev), and the value its last ticker_proxy.get()
\* returned while the matching set() is still to come (read).
\*   pos: "root" (the root is not expanded yet), "search" (between two
\*   expansions), "advance_set" (between get and set of line 429),
\*   "plateau_set" (between get and set of line 442), "done", "cancelled".
NewInstance == [pos |-> "root", best |-> 0, read |-> 0, tick |-> 0, prev |-> 0]

\* gen: the shared flag and counter are created, the instances handed to
\* Parallel and the waiting loop started.
InitBatch ==
    /\ InitWith(BatchInputs)
    /\ budget = 0
    /\ batch = [inst |-> [i \in Instances |-> NewInstance], pbar |-> 0]
    /\ catalog = None
    /\ annealing = None
    /\ freq_adjust = None
    /\ query = None

BatchTiles == TilesToProcess(args.starting_state)

\* Twice _plateau_stop_steps, as in the constructor.
BatchStopSteps ==
    IF args.plateau_check_interval = -1
    THEN Shape(args.starting_state)[1] * Shape(args.starting_state)[2]
    ELSE 2 * args.plateau_check_interval

\* The plateau check of an instance is due at its next expansion.
BatchPlateauDue(in) == BatchStopSteps > 0 /\ 2 * (in.tick + 1) >= BatchStopSteps

\* Lines 435-445 for an expansion that goes on (no plateau stop).
BatchPlateauPassed(in) ==
    IF BatchStopSteps = 0 THEN in
    ELSE IF BatchPlateauDue(in) THEN [in EXCEPT !.tick = 0, !.prev = in.best]
    ELSE [in EXCEPT !.tick = in.tick + 1]

\* An expansion of a node no deeper than the best node: the root's, or,
\* once a node of depth 1 has been expanded, that of another open node.  No
\* access to the counter unless the plateau check stops the run, which then
\* reads the counter (the get() of line 442).
BatchExpandSame(i) ==
    LET in == batch.inst[i]
    IN  /\ in.pos = "root" \/ (in.pos = "search" /\ in.best >= 1)
        /\ ~stop_proxy
        /\ in.best < BatchTiles
        /\ batch' = [batch EXCEPT !.inst[i] =
              IF BatchPlateauDue(in) /\ in.prev = in.best
              THEN [in EXCEPT !.pos = "plateau_set", !.tick = in.tick + 1,
                              !.read = ticker_proxy]
              ELSE [BatchPlateauPassed(in) EXCEPT !.pos = "search"]]
        /\ UNCHANGED <<single_vars, annealing, freq_adjust, query, catalog, stop_proxy, ticker_proxy>>

\* An expansion of a node deeper than the best node: _best_node is replaced
\* and the counter read (the get() of line 429).
BatchAdvanceGet(i) ==
    LET in == batch.inst[i]
    IN  /\ in.pos = "search"
        /\ ~stop_proxy
        /\ in.best < BatchTiles
        /\ batch' = [batch EXCEPT !.inst[i] =
              [in EXCEPT !.pos = "advance_set", !.best = in.best + 1,
                         !.read = ticker_proxy]]
        /\ UNCHANGED <<single_vars, annealing, freq_adjust, query, catalog, stop_proxy, ticker_proxy>>

\* The set() of line 429 with the value read before, then the rest of that
\* expansion: complete (stop), or the plateau bookkeeping, which cannot stop
\* here because the best depth has just passed the reference depth.
BatchAdvanceSet(i) ==
    LET in == batch.inst[i]
    IN  /\ in.pos = "advance_set"
        /\ ticker_proxy' = in.read + 1
        /\ batch' = [batch EXCEPT !.inst[i] =
              IF in.best >= BatchTiles
              THEN [in EXCEPT !.pos = "done", !.read = 0]
              ELSE [BatchPlateauPassed(in) EXCEPT !.pos = "search", !.read = 0]]
        /\ UNCHANGED <<single_vars, annealing, freq_adjust, query, catalog, stop_proxy>>

\* The set() of line 442: the counter is moved on by the depth not reached.
BatchPlateauSet(i) ==
    LET in == batch.inst[i]
    IN  /\ in.pos = "plateau_set"
        /\ ticker_proxy' = in.read + BatchTiles - in.best
        /\ batch' = [batch EXCEPT !.inst[i] = [in EXCEPT !.pos = "done", !.read = 0]]
        /\ UNCHANGED <<single_vars, annealing, freq_adjust, query, catalog, stop_proxy>>

\* The open set of an instance runs empty: StopIteration.
BatchExhausted(i) ==
    LET in == batch.inst[i]
    IN  /\ in.pos = "search"
        /\ batch' = [batch EXCEPT !.inst[i] = [in EXCEPT !.pos = "done"]]
        /\ UNCHANGED <<single_vars, annealing, freq_adjust, query, catalog, stop_proxy, ticker_proxy>>

\* The interrupt check at the head of successors raises: the instance
\* returns None.
BatchCancelled(i) ==
    LET in == batch.inst[i]
    IN  /\ in.pos \in {"root", "search"}
        /\ stop_proxy
        /\ batch' = [batch EXCEPT !.inst[i] = [in EXCEPT !.pos = "cancelled"]]
        /\ UNCHANGED <<single_vars, annealing, freq_adjust, query, catalog, stop_proxy, ticker_proxy>>

\* waiting_loop, no interrupt: the progress bar is set to the counter's value.
BatchReport ==
    /\ ~stop_proxy
    /\ \E i \in Instances : batch.inst[i].pos \notin {"done", "cancelled"}
    /\ batch' = [batch EXCEPT !.pbar = ticker_proxy]
    /\ UNCHANGED <<single_vars, annealing, freq_adjust, query, catalog, stop_proxy, ticker_proxy>>

\* waiting_loop, processing interrupted: the flag is set and the loop ends.
BatchInterrupt ==
    /\ ~stop_proxy
    /\ \E i \in Instances : batch.inst[i].pos \notin {"done", "cancelled"}
    /\ stop_proxy' = TRUE
    /\ UNCHANGED <<single_vars, annealing, freq_adjust, query, catalog, ticker_proxy, batch>>

NextBatch ==
    \/ \E i \in Instances : BatchExpandSame(i)
    \/ \E i \in Instances : BatchAdvanceGet(i)
    \/ \E i \in Instances : BatchAdvanceSet(i)
    \/ \E i \in Instances : BatchPlateauSet(i)
    \/ \E i \in Instances : BatchExhausted(i)
    \/ \E i \in Instances : BatchCancelled(i)
    \/ BatchReport
    \/ BatchInterrupt

SpecBatch == InitBatch /\ [][NextBatch]_vars

(* ------------------- building a catalog (WFC_Sample) ------------------ *)

\* Largest number of tiles of a sample image, and of images of a catalog.
MaxImgTiles == 2
MaxImages == 3

\* A sample image, cut into tiles: the sequence of its tile hashes.
Images == UNION {[1..n -> {1, 2}] : n \in 1..MaxImgTiles}

\* A frequency is a fraction <<numerator, denominator>>.
FracAdd(a, b) == <<a[1] * b[2] + b[1] * a[2], a[2] * b[2]>>
FracEq(a, b) == a[1] * b[2] = b[1] * a[2]

\* tiles_data of prepare: hash -> counts / tiles.shape[0] (the pixel block is
\* left out).
prepare(img) ==
    [t \in {img[i] : i \in DOMAIN img} |->
        <<Cardinality({i \in DOMAIN img : img[i] = t}), Len(img)>>]

\* The dict comprehension of __init__ over {**self.tile_data, **r_tile_data}:
\* v is r_tile_data's entry where it has one, self.tile_data's otherwise.
merge_tile_data(tile_data, r_tile_data) ==
    [k \in DOMAIN tile_data \cup DOMAIN r_tile_data |->
        LET v == IF k \in DOMAIN r_tile_data THEN r_tile_data[k] ELSE tile_data[k]
        IN  FracAdd(IF k \in DOMAIN tile_data THEN tile_data[k] ELSE <<0, 1>>, v)]

\* WFC_Sample(src_imgs, ...) is called on a batch of one image or more.
InitCatalog ==
    /\ InitWith({Kwargs(SampleOne, ZeroGrid(<<1, 1>>), FALSE, -1, DefaultWeights)})
    /\ budget = 0
    /\ batch = None
    /\ annealing = None
    /\ freq_adjust = None
    /\ query = None
    /\ catalog \in {[src_imgs |-> imgs, merged |-> 0, tile_data |-> <<>>] :
                       imgs \in UNION {[1..n -> Images] : n \in 1..MaxImages}}

\* self.tile_data, ... = self.prepare(src_imgs[0], ...)
PrepareFirst ==
    /\ catalog # None
    /\ catalog.merged = 0
    /\ catalog' = [catalog EXCEPT !.merged = 1,
                                  !.tile_data = prepare(catalog.src_imgs[1])]
    /\ UNCHANGED <<single_vars, annealing, freq_adjust, query, stop_proxy, ticker_proxy, batch>>

\* One round of the loop over src_imgs[1:].
MergeNext ==
    /\ catalog # None
    /\ catalog.merged >= 1
    /\ catalog.merged < Len(catalog.src_imgs)
    /\ catalog' = [catalog EXCEPT
          !.merged = @ + 1,
          !.tile_data = merge_tile_data(@, prepare(catalog.src_imgs[catalog.merged + 1]))]
    /\ UNCHANGED <<single_vars, annealing, freq_adjust, query, stop_proxy, ticker_proxy, batch>>

NextCatalog == PrepareFirst \/ MergeNext

SpecCatalog == InitCatalog /\ [][NextCatalog]_vars

(* ===================== the temperature controller ====================== *)

\* The temperature depends on the run only through the depths of the nodes
\* expanded one after the other, so it is followed over every such sequence.
\* Numbers are kept in fixed point and rounded down: ratios in units of
\* 1/Unit, temperatures in hundredths.
MaxTiles == 16
MaxUpdates == 4
Unit == 10000

\* np.sqrt(x), in hundredths.
Sqrt100(x) ==
    CHOOSE r \in 0..(100 * x + 1) : r * r <= 10000 * x /\ (r + 1) * (r + 1) > 10000 * x

Abs(x) == IF x < 0 THEN 0 - x ELSE x

\* min(.9, (abs(depth_diff) * 3) / np.sqrt(T))
CappedRatio(depth_diff, t) ==
    Min((9 * Unit) \div 10, (Abs(depth_diff) * 3 * Unit * 100) \div Sqrt100(t))

\* depth_ratio ** 2.5 / 80
PowerRatio(node_depth, t) ==
    (node_depth * node_depth * Sqrt100(node_depth) * Unit) \div (t * t * Sqrt100(t) * 80)

\* Variant: the capped formula for a depth that did not increase, the power
\* formula for one that did.
temp_ratio_by_direction(t, node_depth, prior_node_depth) ==
    IF node_depth <= prior_node_depth
        THEN CappedRatio(prior_node_depth - node_depth, t)
        ELSE PowerRatio(node_depth, t)

temp_ratio(t, node_depth, prior_node_depth) ==
    LET depth_diff == prior_node_depth - node_depth
    IN  IF depth_diff # 0 THEN CappedRatio(depth_diff, t) ELSE PowerRatio(node_depth, t)

\* Variant: the upper bound as the limit of an advance.
get_new_temperature_up_on_advance(a, node_depth, prior_node_depth) ==
    LET limit == IF node_depth > prior_node_depth
                     THEN a.max_min_temperature ELSE a.min_min_temperature
        ratio == temp_ratio(a.number_of_tiles_to_process, node_depth, prior_node_depth)
    IN  (limit * ratio + a.min_temperature * (Unit - ratio)) \div Unit

get_new_temperature(a, node_depth, prior_node_depth) ==
    LET limit == IF node_depth <= prior_node_depth
                     THEN a.max_min_temperature ELSE a.min_min_temperature
        ratio == temp_ratio(a.number_of_tiles_to_process, node_depth, prior_node_depth)
    IN  (limit * ratio + a.min_temperature * (Unit - ratio)) \div Unit

\* The temperature arguments of WFC_Problem, in hundredths.
TemperatureConfigs ==
    {[starting_temperature |-> 5000, min_min_temperature |-> 0, max_min_temperature |-> 8000],
     [starting_temperature |-> 5000, min_min_temperature |-> 2000, max_min_temperature |-> 9900],
     [starting_temperature |-> 0, min_min_temperature |-> 0, max_min_temperature |-> 8000]}

\* After the constructor and the expansion of the root: _last_node is the
\* root, and the deepest node generated so far has depth 1.
InitTemperature ==
    /\ InitWith({Kwargs(SampleOne, ZeroGrid(<<1, 1>>), FALSE, -1, DefaultWeights)})
    /\ budget = 0
    /\ batch = None
    /\ catalog = None
    /\ annealing \in {[number_of_tiles_to_process |-> t,
                        min_min_temperature |-> c.min_min_temperature,
                        max_min_temperature |-> c.max_min_temperature,
                        min_temperature |-> c.starting_temperature,
                        last_depth |-> 0, prior_depth |-> 0, generated |-> 1, updates |-> 0] :
                           t \in 1..MaxTiles, c \in TemperatureConfigs}
    /\ freq_adjust = None
    /\ query = None

\* successors(node) for a node below the root: any open node can be the next,
\* and its children are one level below it.
UpdateTemperature ==
    /\ annealing # None
    /\ annealing.updates < MaxUpdates
    /\ \E node_depth \in 1..Min(annealing.generated, annealing.number_of_tiles_to_process) :
          annealing' = [annealing EXCEPT
              !.min_temperature = get_new_temperature(annealing, node_depth, annealing.last_depth),
              !.prior_depth = annealing.last_depth,
              !.last_depth = node_depth,
              !.generated = IF node_depth + 1 > @ THEN node_depth + 1 ELSE @,
              !.updates = @ + 1]
    /\ UNCHANGED <<single_vars, freq_adjust, query, stop_proxy, ticker_proxy, batch, catalog>>

NextTemperature == UpdateTemperature

SpecTemperature == InitTemperature /\ [][NextTemperature]_vars

(* ============== the depth adjustment of the frequencies ================ *)

\* Numbers are fractions <<numerator, denominator>> with a positive
\* denominator.
MaxAdjustTiles == 6

FracMul(a, b) == <<a[1] * b[1], a[2] * b[2]>>
FracSub(a, b) == <<a[1] * b[2] - b[1] * a[2], a[2] * b[2]>>
FracLeq(a, b) == a[1] * b[2] <= b[1] * a[2]
FracPos(a) == IF a[2] < 0 THEN <<0 - a[1], 0 - a[2]>> ELSE a

RECURSIVE Gcd(_, _)
Gcd(a, b) == IF b = 0 THEN a ELSE Gcd(b, a % b)

\* The fraction in lowest terms.
Reduce(a) ==
    LET g == Gcd(Abs(a[1]), a[2])
    IN  <<a[1] \div g, a[2] \div g>>

\* Variant: the right-hand side of a quadratic that is 0 at both ends and t in
\* the middle.
PolyRhsZeroAtEnds(t) == <<0, 0, 4 * t>>

\* b = [t, t, 0], its last entry times 4 as the last row of the matrix.
PolyRhs(t) == <<t, t, 0>>

ReplaceColumn(a, j, b) == [i \in 1..3 |-> [k \in 1..3 |-> IF k = j THEN b[i] ELSE a[i][k]]]

\* np.linalg.solve(a, b): the three coefficients, highest power first.
Solve(t) ==
    [j \in 1..3 |->
        Reduce(FracPos(<<Det3(ReplaceColumn(PolyMatrix(t), j, PolyRhs(t))),
                         Det3(PolyMatrix(t))>>))]

\* np.poly1d(coefficients)(x) for a fraction x.
tile_freq_adjustment_poly(t, x) ==
    LET c == Solve(t)
    IN  Reduce(FracAdd(Reduce(FracAdd(Reduce(FracMul(c[1], FracMul(x, x))),
                                      Reduce(FracMul(c[2], x)))), c[3]))

tile_freq_adjustment_func(t, max_freq_adjust, x) ==
    Reduce(FracMul(max_freq_adjust,
                   Reduce(FracSub(<<1, 1>>,
                                  Reduce(FracMul(tile_freq_adjustment_poly(t, x), <<1, t>>))))))

\* max_freq_adjust of the node's inputs is in 0..1; 0 switches the adjustment
\* off.
Strengths == {<<1, 4>>, <<1, 2>>, <<3, 4>>, <<1, 1>>}

InitAdjustment ==
    /\ InitWith({Kwargs(SampleOne, ZeroGrid(<<1, 1>>), FALSE, -1, DefaultWeights)})
    /\ budget = 0
    /\ batch = None
    /\ catalog = None
    /\ annealing = None
    /\ freq_adjust \in {[number_of_tiles_to_process |-> t, max_freq_adjust |-> f,
                          depth |-> -1, value |-> <<0, 1>>] :
                             t \in 1..MaxAdjustTiles, f \in Strengths}
    /\ query = None

\* depth_adjustment = self._tile_freq_adjustment_func(depth)
AdjustAtDepth ==
    /\ freq_adjust # None
    /\ \E node_depth \in 0..freq_adjust.number_of_tiles_to_process :
          freq_adjust' = [freq_adjust EXCEPT
              !.depth = node_depth,
              !.value = tile_freq_adjustment_func(freq_adjust.number_of_tiles_to_process,
                                                  freq_adjust.max_freq_adjust,
                                                  <<node_depth, 1>>)]
    /\ UNCHANGED <<single_vars, annealing, query, stop_proxy, ticker_proxy, batch, catalog>>

NextAdjustment == AdjustAtDepth

SpecAdjustment == InitAdjustment /\ [][NextAdjustment]_vars

(* ========================= the adjacency query ========================= *)

MaxQueries == 2

\* A catalog whose patterns differ in a cardinal and in a diagonal neighbour.
EastTwo == [i \in 1..9 |-> IF i = 6 THEN 2 ELSE 1]
CornerTwo == [i \in 1..9 |-> IF i \in {5, 9} THEN 2 ELSE 1]
SampleMixed ==
    [tile_data |-> {1, 2},
     super_tile_data |-> {<<Uniform(1), 2>>, <<Ring(2, 1), 1>>, <<EastTwo, 3>>,
                          <<CornerTwo, 2>>}]

QueryShape == <<2, 2>>

\* The cells asked about: two opposite corners, each with two cardinal
\* neighbours and one diagonal neighbour in the grid.
QueryCells == {<<0, 0>>, <<1, 1>>}

\* The arguments of the memoized function, which are its cache key.
QueryKey(adj, use8) == IF use8 THEN adj ELSE [i \in Cardinal4 |-> adj[i]]

\* get_cell_potential_states_{8,4}cardinals with its @cache: the stored
\* answer for arguments seen before, the computed one otherwise.
cached_cell_potential_states(cache, sample, adj, use8) ==
    IF QueryKey(adj, use8) \in DOMAIN cache
        THEN cache[QueryKey(adj, use8)]
        ELSE map_to_probabilities(get_cell_potential_states(sample, adj, use8))

InitQuery ==
    /\ InitWith({Kwargs(SampleOne, ZeroGrid(<<1, 1>>), FALSE, -1, DefaultWeights)})
    /\ budget = 0
    /\ batch = None
    /\ catalog = None
    /\ annealing = None
    /\ freq_adjust = None
    /\ query \in {[sample |-> sm, use_8_cardinals |-> u, cache |-> <<>>, queries |-> 0,
                    world_state |-> ZeroGrid(QueryShape), cell |-> <<0, 0>>,
                    answer |-> <<>>] :
                       sm \in {SampleTwo, SampleMixed}, u \in BOOLEAN}

\* The first lines of get_cell_potential_states_and_costs, for a cell of any
\* grid.
AskQuery ==
    /\ query # None
    /\ query.queries < MaxQueries
    /\ \E world_state \in [Cells(QueryShape) -> {0} \cup get_tile_data(query.sample)] :
       \E c \in QueryCells :
          LET adj == adjacent_states(c, world_state)
              key == QueryKey(adj, query.use_8_cardinals)
              answer == cached_cell_potential_states(query.cache, query.sample, adj,
                                                     query.use_8_cardinals)
          IN  \* the query is made for undecided cells only
              /\ world_state[c] = 0
              /\ query' = [query EXCEPT
                     !.world_state = world_state,
                     !.cell = c,
                     !.answer = answer,
                     !.cache = [k \in DOMAIN query.cache \cup {key} |->
                                   IF k \in DOMAIN query.cache THEN query.cache[k]
                                                               ELSE answer],
                     !.queries = @ + 1]
    /\ UNCHANGED <<single_vars, annealing, freq_adjust, stop_proxy, ticker_proxy, batch,
                   catalog>>

NextQuery == AskQuery

SpecQuery == InitQuery /\ [][NextQuery]_vars

(* ========================= properties of the model ===================== *)

RECURSIVE PathActions(_)
PathActions(node) ==
    IF node.parent = None THEN {} ELSE {node.action} \cup PathActions(node.parent)

\* The grid `base` with every (cell, tile) of `actions` written over it.
Overlay(base, actions) ==
    [c \in DOMAIN base |->
        IF \E a \in actions : a[1] = c
        THEN (CHOOSE a \in actions : a[1] = c)[2]
        ELSE base[c]]

\* The state is one between two expansions (or after the last one) of a run
\* that expanded at least its root.
Materialized == pc \in {"search", "done"} /\ last_node # None

Use8 == args.use_8_cardinals

\* The nodes the next expansion can jump to.
Targets == IF pc = "search" /\ ~stop /\ ~stop_proxy THEN fringe ELSE {}

\* C1: after materialize(target, last) the shared grid is the starting grid
\* overlaid with exactly the assignments of the root-to-target path: for the
\* node just expanded, whatever the jump that led to it, and for a jump from
\* it to any open node.
C1_GridIsPathOfTarget ==
    /\ pc # "crashed"
    /\ Materialized =>
          /\ temp_world_state = Overlay(args.starting_state, PathActions(last_node))
          /\ \A target \in Targets :
                LET got == get_world_state(WS, last_node, target, Use8)
                IN  /\ ~got.err
                    /\ got.grid = Overlay(args.starting_state, PathActions(target))

\* C2: apply(c, t) then revert(c, t) restores grid, counters and frontier,
\* for every frontier cell and every tile of the catalog, in both modes.
C2_ApplyRevertRestores ==
    Materialized =>
        \A c \in temp_world_open_super_tiles : \A t \in DOMAIN tile_counts :
            LET applied == apply_action(WS, <<c, t>>, Use8)
            IN  /\ applied # WS
                /\ revert_action(applied, <<c, t>>, Use8) = WS

\* C3: materialize(A, A) changes nothing, and materialize(A, B) followed by
\* materialize(B, A) gives back the state that represents A.
C3_MaterializeRoundTrip ==
    Materialized =>
        /\ get_world_state(WS, last_node, last_node, Use8) = WS
        /\ \A b \in Targets :
              get_world_state(get_world_state(WS, last_node, b, Use8),
                              b, last_node, Use8) = WS

\* The undecided cells with a decided neighbour under the run's mode.
FrontierOf(grid, use8) ==
    {c \in DOMAIN grid :
        /\ grid[c] = 0
        /\ \E n \in DOMAIN grid :
              /\ n # c
              /\ n[1] - c[1] \in {-1, 0, 1}
              /\ n[2] - c[2] \in {-1, 0, 1}
              /\ use8 \/ n[1] = c[1] \/ n[2] = c[2]
              /\ grid[n] # 0}

Centre(grid) == <<Shape(grid)[1] \div 2, Shape(grid)[2] \div 2>>

ExpectedFrontier(grid, node) ==
    IF depth(node) = 0 /\ starting_state = None
    THEN {Centre(grid)}
    ELSE FrontierOf(grid, Use8)

\* C4: whenever a node is expanded the frontier is exactly the set of
\* undecided cells with a decided neighbour (the centre cell alone at the
\* root of a run without starting grid); the same after a jump to any open node.
C4_FrontierIsBoundary ==
    Materialized =>
        /\ temp_world_open_super_tiles = ExpectedFrontier(temp_world_state, last_node)
        /\ \A target \in Targets :
              LET got == get_world_state(WS, last_node, target, Use8)
              IN  got.open = ExpectedFrontier(got.grid, target)

CountOf(actions, t) == Cardinality({a \in actions : a[2] = t})

RECURSIVE SumOver(_, _)
SumOver(f, keys) ==
    IF keys = {} THEN 0
    ELSE LET k == CHOOSE q \in keys : TRUE
         IN  f[k] + SumOver(f, keys \ {k})

\* C5: after every apply, revert and materialize (also one that ended the
\* run) each tile's counter is the number of actions of the materialized path
\* that assigned it; the counters sum to the depth of that node (pre-filled
\* cells are not counted).
C5_CountersFollowPath ==
    (pc \in {"search", "done", "crashed"} /\ last_node # None) =>
        /\ \A t \in DOMAIN tile_counts :
              tile_counts[t] = CountOf(PathActions(last_node), t)
        /\ SumOver(tile_counts, DOMAIN tile_counts) = depth(last_node)
        /\ \A target \in Targets :
              LET got == get_world_state(WS, last_node, target, Use8)
              IN  \A t \in DOMAIN tile_counts :
                      got.counts[t] = CountOf(PathActions(target), t)

\* C6: every outcome but cancellation returns the starting grid (or the zero
\* grid) with exactly the assignments of the best node's path written on it.
C6_ResultIsBestPath ==
    (pc = "done" /\ outcome # "cancelled") =>
        /\ DOMAIN result = DOMAIN args.starting_state
        /\ \A c \in DOMAIN result :
              IF \E a \in PathActions(best_node) : a[1] = c
              THEN \E a \in PathActions(best_node) : a[1] = c /\ a[2] = result[c]
              ELSE result[c] = args.starting_state[c]

\* A plateau stop whose best node is not the node expanded last, on a
\* pre-filled grid.
C6_Witness ==
    /\ pc = "done"
    /\ outcome = "solution"
    /\ last_step = "plateau"
    /\ starting_state # None
    /\ best_node # last_node
    /\ depth(best_node) >= 1

(* ---- C7 ---- *)

OneTileRun ==
    /\ args.sample = SampleOne
    /\ count_nonzero(args.starting_state) = 0
    /\ args.plateau_check_interval = -1
    /\ args.w = DefaultWeights

\* The run stopped by completion and returned the grid filled with the tile.
Completed ==
    /\ pc = "done"
    /\ stop
    /\ last_step = "complete"
    /\ depth(best_node) = NumCells
    /\ \A c \in DOMAIN result : result[c] \in get_tile_data(args.sample)

\* C7 as claimed: on any all-undecided grid a one-tile run that ends has
\* stopped by completion, its best depth the number of cells and every cell
\* of the result the tile.
C7_AnyGridCompletes == (OneTileRun /\ pc = "done") => Completed

\* C7, amended: on an all-undecided grid of at least 3 cells a one-tile run
\* eventually stops by completion, its best depth the number of cells and
\* every cell of the result the tile.
C7_OneTileCompletes == (OneTileRun /\ NumCells >= 3) => <>Completed

\* A completed run on a grid of 4 cells or more, after a plateau check that
\* found the best depth advanced.
C7_Witness ==
    /\ Completed
    /\ OneTileRun
    /\ NumCells >= 4
    /\ prev_best_depth > 0

(* ---- C8 ---- *)

Prefilled == count_nonzero(args.starting_state) = NumCells

\* C8: with a fully pre-filled starting grid the engine is constructed and
\* run without error, its first expansion stops at depth 0 with stop set, and
\* the starting grid is returned unchanged.
C8_PrefilledRunsClean ==
    Prefilled =>
        /\ pc \notin {"error", "crashed"}
        /\ expansions >= 1 =>
              stop /\ expansions = 1 /\ last_step = "complete" /\ depth(best_node) = 0
        /\ (pc = "done" /\ outcome # "cancelled") => result = args.starting_state

(* ---- C9 ---- *)

\* The frontier the root expansion opens on the starting grid.
RootFrontier ==
    open_nodes_on_depth_zero(
        WorldState(args.starting_state, [t \in get_tile_data(args.sample) |-> 0], {}),
        IF count_nonzero(args.starting_state) > 0 THEN args.starting_state ELSE None,
        Use8)

\* Plateau interval 1, an all-undecided grid, and a catalog without a
\* candidate for the frontier cell the root opens.
IntervalOneNoCandidates ==
    /\ args.plateau_check_interval = 1
    /\ count_nonzero(args.starting_state) = 0
    /\ RootFrontier.open # {}
    /\ \A c \in RootFrontier.open :
          get_cell_potential_states_and_costs(args.sample, c, RootFrontier.grid,
                                              Use8).tiles = {}

\* C9 as claimed: the first expansion is a dead-end prune that sets no stop,
\* a later expansion stops at the plateau check, the result is all-undecided.
C9_FirstExpansionPrunes ==
    IntervalOneNoCandidates =>
        /\ expansions = 1 => (last_step = "dead_end" /\ ~stop)
        /\ (pc = "done" /\ outcome # "cancelled") =>
              /\ expansions >= 2
              /\ last_step = "plateau"
              /\ result = ZeroGrid(Shape(args.starting_state))

\* C9, amended: the first expansion itself stops at the plateau check (stop
\* set, no candidate query, no dead-end prune, no successors), there is no
\* second expansion, and the result is the all-undecided grid.
C9_FirstExpansionPlateaus ==
    (IntervalOneNoCandidates /\ expansions >= 1) =>
        /\ expansions = 1
        /\ last_step = "plateau"
        /\ stop
        /\ fringe = {}
        /\ best_node = InitialNode
        /\ temp_world_state = args.starting_state
        /\ (pc = "done" /\ outcome # "cancelled") =>
              result = ZeroGrid(Shape(args.starting_state))

\* Such a run has returned.
C9_Witness ==
    /\ IntervalOneNoCandidates
    /\ pc = "done"
    /\ last_step = "plateau"
    /\ result = ZeroGrid(Shape(args.starting_state))

(* ---- C10 ---- *)

\* The flag was set before the first expansion and the run has ended.
CancelledBeforeFirst ==
    /\ pc = "done"
    /\ outcome = "cancelled"
    /\ expansions = 0

NoAssignments ==
    /\ temp_world_state = args.starting_state
    /\ \A t \in DOMAIN tile_counts : tile_counts[t] = 0
    /\ temp_world_open_super_tiles = {}
    /\ best_node = None
    /\ last_node = None
    /\ fringe = {InitialNode}
    /\ DOMAIN closed = {InitialNode.state}

\* C10 as claimed: cancelled before the first expansion, the run has made no
\* assignment and yields an all-undecided result grid.
C10_CancelledYieldsEmptyGrid ==
    (CancelledBeforeFirst /\ count_nonzero(args.starting_state) = 0) =>
        /\ NoAssignments
        /\ result # None
        /\ result = ZeroGrid(Shape(args.starting_state))

\* C10, amended: cancelled before the first expansion, the run has made no
\* assignment (nothing applied, no best node, no successors) and yields no
\* result grid: generate_single returns None.
C10_CancelledYieldsNothing ==
    CancelledBeforeFirst => (NoAssignments /\ result = None)

\* A run on an all-undecided grid cancelled before its first expansion.
C10_Witness ==
    /\ CancelledBeforeFirst
    /\ count_nonzero(args.starting_state) = 0
    /\ result = None

(* ---- C11 ---- *)

\* C11: in a batch of two or more instances sharing the progress counter, no
\* step of any interleaving lowers the counter, nor the value the progress
\* reporter shows.
C11_CounterNeverDecreases ==
    [][(batch # None) =>
          /\ ticker_proxy' >= ticker_proxy
          /\ batch'.pbar >= batch.pbar]_vars

(* ---- C12 ---- *)

\* C12: once the cancellation flag is set, an instance that is searching (it
\* has not stopped and has an open node to expand) ends at its next step with
\* the cancellation outcome; no step expands a node or changes the open and
\* closed sets any more; a cancelled instance has no result grid, an instance
\* that ended otherwise has one.
C12_CancelEndsSearch ==
    [][/\ (stop_proxy /\ pc = "search") =>
             /\ expansions' = expansions
             /\ fringe' = fringe
             /\ closed' = closed
             /\ (pc = "search" /\ ~stop /\ fringe # {}) =>
                   (pc' = "done" /\ outcome' = "cancelled")
       /\ pc' = "done" => ((outcome' = "cancelled") <=> (result' = None))]_vars

\* An instance cancelled in mid-search, after it had generated successors.
C12_Witness ==
    /\ pc = "done"
    /\ outcome = "cancelled"
    /\ stop_proxy
    /\ expansions >= 2
    /\ last_step = "children"
    /\ fringe # {}
    /\ result = None

(* ---- C14 ---- *)

Cancelled == outcome = "cancelled"
StoppedComplete == outcome # "cancelled" /\ stop /\ last_step = "complete"
StoppedByPlateau == outcome # "cancelled" /\ stop /\ last_step = "plateau"
Exhausted == outcome = "exhausted" /\ ~stop

OutcomesReached ==
    Cardinality({k \in 1..4 : \/ k = 1 /\ Cancelled
                              \/ k = 2 /\ StoppedComplete
                              \/ k = 3 /\ StoppedByPlateau
                              \/ k = 4 /\ Exhausted})

\* A run that is still followed has not ended.
Running == pc \in {"init", "search"} /\ expansions < budget

\* C14: a run never ends otherwise than by cancellation, completion, plateau
\* or exhaustion: it has no other way to end (no error leaves the constructor
\* or the search), it can always take its next step until it has ended, and
\* when it has ended exactly one of the four outcomes holds, the completion
\* outcome having expanded a node whose depth is the number of cells to fill;
\* also with plateau interval 0.
C14_EndsInOneOfFour ==
    /\ pc \notin {"error", "crashed"}
    /\ Running => ENABLED Next
    /\ pc = "done" =>
          /\ OutcomesReached = 1
          /\ StoppedComplete => depth(last_node) = number_of_tiles_to_process
          /\ StoppedByPlateau => args.plateau_check_interval # 0

(* ---- C15 ---- *)

\* A tile's frequency in one sample: count / tiles of the sample, 0 if the
\* sample does not contain the tile.
SampleFreq(img, t) == <<Cardinality({i \in DOMAIN img : img[i] = t}), Len(img)>>

RECURSIVE SumOfSampleFreqs(_, _, _)
SumOfSampleFreqs(imgs, n, t) ==
    IF n = 0 THEN <<0, 1>>
    ELSE FracAdd(SumOfSampleFreqs(imgs, n - 1, t), SampleFreq(imgs[n], t))

\* C15: after any number of samples has been merged, the catalog holds
\* exactly the tiles of these samples, each with the sum of its per-sample
\* frequencies.
C15_FrequenciesAreSummed ==
    (catalog # None /\ catalog.merged >= 1) =>
        /\ DOMAIN catalog.tile_data =
              UNION {{catalog.src_imgs[n][i] : i \in DOMAIN catalog.src_imgs[n]} :
                        n \in 1..catalog.merged}
        /\ \A t \in DOMAIN catalog.tile_data :
              FracEq(catalog.tile_data[t],
                     SumOfSampleFreqs(catalog.src_imgs, catalog.merged, t))

(* ---- C16 ---- *)

\* value(a) <= value(b) for the value of the claim,
\*   w1 * (1 + T - depth) + w2 * node_cost + w3 * (accumulated_entropy / (1 + depth)),
\* with T the number of cells to fill and node_cost in units of 1 / MaxCost;
\* both sides are multiplied by MaxCost * (1 + depth(a)) * (1 + depth(b)).
ClaimValueLeq(a, b) ==
    LET T == number_of_tiles_to_process
        w == args.w
        da == depth(a)
        db == depth(b)
    IN  (MaxCost * w[1] * (1 + T - da) * (1 + da) + w[2] * a.node_cost * (1 + da)
            + MaxCost * w[3] * a.extra) * (1 + db)
        <= (MaxCost * w[1] * (1 + T - db) * (1 + db) + w[2] * b.node_cost * (1 + db)
            + MaxCost * w[3] * b.extra) * (1 + da)

\* The step expands a node: the node leaves the open set.
ExpandsNode(n) == expansions' = expansions + 1 /\ n \in fringe /\ n \notin fringe'

DepthOnly == args.w[1] > 0 /\ args.w[2] = 0 /\ args.w[3] = 0

\* C17: with w1 > 0 and w2 = w3 = 0 the node expanded at a step is one of
\* greatest depth among the open nodes.
C17_DeepestFirst ==
    [][DepthOnly =>
          \A n \in fringe : ExpandsNode(n) => \A m \in fringe : depth(m) <= depth(n)]_vars

\* Under such weights a node of depth 2 has just been expanded while a node
\* of depth 1, generated before it, was open.
C17_Witness ==
    /\ DepthOnly
    /\ pc = "search"
    /\ last_node # None
    /\ depth(last_node) = 2
    /\ \E m \in fringe : depth(m) = 1

(* ---- C18 ---- *)

\* Twice the plateau interval k of the run: the given interval, or by default
\* half the cells of the grid.
TwiceInterval ==
    IF args.plateau_check_interval = -1 THEN NumCells
    ELSE 2 * args.plateau_check_interval

\* The step is an expansion that is neither cancelled nor complete.
CountedExpansion ==
    expansions' = expansions + 1 /\ last_step' \notin {"complete", "raised"}

\* C18: with interval k > 0 the step counter goes up by one at each expansion
\* that is neither cancelled nor complete; when it reaches k the best depth is
\* compared with the reference depth (0 at first): if equal, stop is set and
\* the expansion yields nothing; if not, the counter returns to 0 and the best
\* depth becomes the reference.  Any other step leaves counter and reference
\* alone, and with interval 0 no expansion stops by plateau.
C18_PlateauCheck ==
    [][/\ pc = "search" =>
             IF CountedExpansion /\ TwiceInterval > 0
             THEN IF 2 * (plateau_check_ticker + 1) >= TwiceInterval
                  THEN IF depth(best_node') = prev_best_depth
                       THEN /\ stop' /\ last_step' = "plateau"
                            /\ fringe' \subseteq fringe
                            /\ prev_best_depth' = prev_best_depth
                       ELSE /\ ~stop' /\ last_step' # "plateau"
                            /\ plateau_check_ticker' = 0
                            /\ prev_best_depth' = depth(best_node')
                  ELSE /\ plateau_check_ticker' = plateau_check_ticker + 1
                       /\ prev_best_depth' = prev_best_depth
                       /\ last_step' # "plateau"
             ELSE /\ plateau_check_ticker' = plateau_check_ticker
                  /\ prev_best_depth' = prev_best_depth
                  /\ last_step' = "plateau" => last_step = "plateau"
       /\ prev_best_depth = 0 \/ pc # "init"]_vars

\* A run with the default interval stopped by plateau at its second check,
\* the first check having moved the reference depth to 1.
C18_Witness ==
    /\ args.plateau_check_interval = -1
    /\ stop
    /\ last_step = "plateau"
    /\ prev_best_depth = 1
    /\ depth(best_node) = 1
    /\ expansions = 4

(* ---- C19 ---- *)

\* The step is an expansion that got as far as the best-node update.
ExpandedNow == expansions' = expansions + 1 /\ last_step' # "raised"

\* C19: the best node is the first expanded node of the greatest depth
\* expanded so far: an expansion of a deeper node makes that node the best
\* node, an expansion of any other node leaves the best node alone, and so
\* does every other step; the best depth never decreases and is never below
\* the depth of an expanded node.
C19_BestIsEarliestDeepest ==
    [][/\ (ExpandedNow /\ best_node = None) => best_node' = last_node'
       /\ (ExpandedNow /\ best_node # None) =>
             IF depth(last_node') > depth(best_node)
             THEN best_node' = last_node'
             ELSE best_node' = best_node
       /\ ~ExpandedNow => best_node' = best_node
       /\ best_node # None =>
             /\ best_node' # None
             /\ depth(best_node') >= depth(best_node)
       /\ last_node' # None =>
             /\ best_node' # None
             /\ depth(best_node') >= depth(last_node')]_vars

\* A node as deep as the best node has just been expanded and the best node,
\* expanded before it, was kept.
C19_Witness ==
    /\ pc = "search"
    /\ last_node # None
    /\ best_node # last_node
    /\ depth(best_node) = depth(last_node)
    /\ depth(best_node) >= 1
    /\ last_step = "children"

(* ---- C20 ---- *)

\* The candidates of the frontier cells of the node the step has expanded.
CollapsesAfter ==
    potential_collapses(
        WorldState(temp_world_state', tile_counts', temp_world_open_super_tiles'))

\* The frontier of the node just expanded is empty or has a cell without
\* candidates.
DeadEndAfter ==
    \/ temp_world_open_super_tiles' = {}
    \/ \E c \in temp_world_open_super_tiles' : CollapsesAfter[c].tiles = {}

\* A dead end at depth 0 ends the run without error, with the starting grid
\* (all-undecided if there was none) as the result.
RootDeadEndEndsRun ==
    (last_step' = "dead_end" /\ depth(last_node') = 0) =>
        /\ pc' \in {"search", "done"}
        /\ fringe' = {}
        /\ pc' = "done" => (outcome' = "exhausted" /\ result' = args.starting_state)

\* C20 as claimed: an expansion of a node whose frontier is empty or has a
\* cell without candidates yields no successors and does not set stop.
C20_DeadEndNeverStops ==
    [][/\ (ExpandedNow /\ DeadEndAfter) =>
             /\ fringe' \subseteq fringe
             /\ ~stop'
       /\ RootDeadEndEndsRun]_vars

\* C20, amended: an expansion that gets past the completion and plateau
\* checks to a frontier that is empty or has a cell without candidates yields
\* no successors at all, only removes the expanded node from the open set and
\* does not set stop; a dead end at depth 0 ends the run without error with
\* the starting grid as the result.
C20_DeadEndPrunesNode ==
    [][/\ (ExpandedNow /\ DeadEndAfter /\ last_step' \notin {"complete", "plateau"}) =>
             /\ last_step' = "dead_end"
             /\ fringe' = fringe \ {last_node'}
             /\ closed' = closed
             /\ ~stop'
       /\ RootDeadEndEndsRun]_vars

\* A dead end below the root at a node with a frontier cell that has
\* candidates and one that has none; other nodes are open.
C20_Witness ==
    /\ pc = "search"
    /\ last_step = "dead_end"
    /\ ~stop
    /\ depth(last_node) >= 1
    /\ fringe # {}
    /\ \E c, d \in temp_world_open_super_tiles :
          /\ potential_collapses(WS)[c].tiles = {}
          /\ potential_collapses(WS)[d].tiles # {}

(* ---- C21 ---- *)

\* The (frontier cell, candidate tile) pairs of the node the step has expanded.
PairsAfter ==
    UNION {{<<c, t>> : t \in CollapsesAfter[c].tiles} : c \in temp_world_open_super_tiles'}

\* The identity of the child of n by the placement k: depth + 1 and the hash
\* of the grid of n's path with that one placement added.
ChildIdentity(n, k) ==
    <<depth(n) + 1,
      world_state_hash(With(Overlay(args.starting_state, PathActions(n)), k[1], k[2]),
                       HashBase(args.sample, args.starting_state))>>

\* C21: an expansion that is neither complete, plateaued nor a dead end
\* generates for every (frontier cell, candidate tile) pair a child of that
\* identity (it is in the closed map afterwards), the nodes it adds to the
\* open set are children of the expanded node, one per pair at most, with
\* depth + 1, the pair as action and the pair's identity; when it ends, grid,
\* counters and frontier are what materialization made them.
C21_ChildrenPerPair ==
    [][\A n \in fringe : (ExpandsNode(n) /\ last_step' = "children") =>
          /\ PairsAfter # {}
          /\ \A k \in PairsAfter : ChildIdentity(n, k) \in DOMAIN closed'
          /\ \A m \in fringe' \ fringe :
                /\ m.parent = n
                /\ m.action \in PairsAfter
                /\ m.state = ChildIdentity(n, m.action)
                /\ \A o \in fringe' \ fringe : o.action = m.action => o = m
          /\ temp_world_state' = Entered(n).ws.grid
          /\ temp_world_state' = Overlay(args.starting_state, PathActions(n))
          /\ tile_counts' = Entered(n).ws.counts
          /\ temp_world_open_super_tiles' = Entered(n).ws.open]_vars

\* An expansion below the root has just generated children for a frontier of
\* two cells or more.
C21_Witness ==
    /\ pc = "search"
    /\ last_step = "children"
    /\ depth(last_node) >= 1
    /\ Cardinality(temp_world_open_super_tiles) >= 2
    /\ \E m \in fringe : m.parent = last_node

(* ---- C22 ---- *)

\* The local entropy of the cell a node's action assigned, taken on the grid
\* of the node's parent.
LocalEntropy(m) ==
    get_cell_potential_states_and_costs(
        args.sample, m.action[1],
        Overlay(args.starting_state, PathActions(m.parent)), Use8).entropy

RECURSIVE PathEntropy(_)
PathEntropy(m) ==
    IF m.parent = None THEN 0 ELSE PathEntropy(m.parent) + LocalEntropy(m)

\* C22: the accumulated entropy of every generated node is that of its parent
\* plus the local entropy of its own cell, hence the sum of the local
\* entropies of the actions on its root path.
C22_EntropyAccumulates ==
    \A m \in fringe :
        /\ m.parent # None => m.extra = m.parent.extra + LocalEntropy(m)
        /\ m.extra = PathEntropy(m)

(* ---- C23 ---- *)

Updated == annealing # None /\ annealing.updates >= 1

\* The value the temperature had before the last update is not kept, so the
\* claim on one update is stated on the step.
UpdateStep == annealing # None /\ annealing'.updates = annealing.updates + 1

Blend(floor, ratio, current) == (floor * ratio + current * (Unit - ratio)) \div Unit

\* C24 as claimed: the new temperature is floor*ratio + current*(1-ratio) with
\* the floor max_min_temperature when the node is deeper than the node
\* expanded before it, and min_min_temperature otherwise.
C24_FloorMaxOnAdvance ==
    [][UpdateStep =>
        LET d == annealing'.last_depth
            p == annealing.last_depth
        IN  annealing'.min_temperature =
                Blend(IF d > p THEN annealing.max_min_temperature
                               ELSE annealing.min_min_temperature,
                      temp_ratio(annealing.number_of_tiles_to_process, d, p),
                      annealing.min_temperature)]_vars

\* C24, amended: the new temperature is floor*ratio + current*(1-ratio) with
\* the floor min_min_temperature when the node is deeper than the node
\* expanded before it (advancing), and max_min_temperature otherwise.
C24_FloorMinOnAdvance ==
    [][UpdateStep =>
        LET d == annealing'.last_depth
            p == annealing.last_depth
        IN  annealing'.min_temperature =
                Blend(IF d > p THEN annealing.min_min_temperature
                               ELSE annealing.max_min_temperature,
                      temp_ratio(annealing.number_of_tiles_to_process, d, p),
                      annealing.min_temperature)]_vars

\* Both directions have been taken, with bounds that differ and a ratio that
\* is not 0: after advances, a move to the same or a smaller depth is the last
\* update and has left the temperature above the lower bound.
C24_Witness ==
    /\ Updated
    /\ annealing.updates >= 3
    /\ annealing.last_depth <= annealing.prior_depth
    /\ annealing.min_min_temperature < annealing.max_min_temperature
    /\ temp_ratio(annealing.number_of_tiles_to_process,
                  annealing.last_depth, annealing.prior_depth) > 0
    /\ annealing.min_temperature > annealing.min_min_temperature

\* What an update makes of a temperature of 0 with both bounds at 100.00 is
\* the ratio it used, in units of 1/Unit.
RatioOf(t, d, p) ==
    get_new_temperature([number_of_tiles_to_process |-> t, min_min_temperature |-> Unit,
                         max_min_temperature |-> Unit, min_temperature |-> 0], d, p)

\* C25 as claimed: the ratio is min(0.9, 3*|prior-depth|/sqrt(T)) when the
\* depth decreased or is unchanged, and (depth/T)^2.5/80 when it increased.
C25_RatioByDirection ==
    Updated =>
        LET t == annealing.number_of_tiles_to_process
            d == annealing.last_depth
            p == annealing.prior_depth
        IN  RatioOf(t, d, p) = IF d <= p THEN CappedRatio(p - d, t) ELSE PowerRatio(d, t)

\* C25, amended: the ratio is min(0.9, 3*|prior-depth|/sqrt(T)) when the depth
\* differs from that of the node expanded before, in either direction, and
\* (depth/T)^2.5/80 when it is unchanged.
C25_RatioByChange ==
    Updated =>
        LET t == annealing.number_of_tiles_to_process
            d == annealing.last_depth
            p == annealing.prior_depth
        IN  RatioOf(t, d, p) = IF d # p THEN CappedRatio(p - d, t) ELSE PowerRatio(d, t)

\* An advance whose ratio stays under the cap, after an update at unchanged
\* depth whose ratio is not 0.
C25_Witness ==
    /\ Updated
    /\ annealing.last_depth > annealing.prior_depth
    /\ annealing.prior_depth >= 1
    /\ LET t == annealing.number_of_tiles_to_process
       IN  /\ CappedRatio(annealing.prior_depth - annealing.last_depth, t) < (9 * Unit) \div 10
           /\ PowerRatio(annealing.prior_depth, t) > 0

(* ---- C26 ---- *)

Adjusted == freq_adjust # None /\ freq_adjust.depth >= 0

AdjustmentZeroAtEndsMaxInMiddle ==
    LET t == freq_adjust.number_of_tiles_to_process
        f == freq_adjust.max_freq_adjust
    IN  /\ freq_adjust.depth \in {0, t} => FracEq(freq_adjust.value, <<0, 1>>)
        /\ FracLeq(freq_adjust.value, tile_freq_adjustment_func(t, f, <<t, 2>>))
        /\ FracEq(freq_adjust.value, tile_freq_adjustment_func(t, f, <<t, 2>>))
              => 2 * freq_adjust.depth = t

\* C26 as claimed: the polynomial Q of the depth adjustment
\* strength*(1 - Q(depth)/T) is the quadratic through (0,0), (T,0) and
\* (T/2,T), and the adjustment is 0 at depth 0 and at depth T and greatest at
\* depth T/2.
C26_QuadraticZeroAtEnds ==
    Adjusted =>
        LET t == freq_adjust.number_of_tiles_to_process
        IN  /\ FracEq(tile_freq_adjustment_poly(t, <<0, 1>>), <<0, 1>>)
            /\ FracEq(tile_freq_adjustment_poly(t, <<t, 1>>), <<0, 1>>)
            /\ FracEq(tile_freq_adjustment_poly(t, <<t, 2>>), <<t, 1>>)
            /\ AdjustmentZeroAtEndsMaxInMiddle

\* C26, amended: the polynomial Q of the depth adjustment
\* strength*(1 - Q(depth)/T) is the quadratic through (0,T), (T,T) and
\* (T/2,0); the adjustment is 0 at depth 0 and at depth T and is greatest, and
\* equal to strength, at depth T/2 only.
C26_QuadraticZeroInMiddle ==
    Adjusted =>
        LET t == freq_adjust.number_of_tiles_to_process
        IN  /\ FracEq(tile_freq_adjustment_poly(t, <<0, 1>>), <<t, 1>>)
            /\ FracEq(tile_freq_adjustment_poly(t, <<t, 1>>), <<t, 1>>)
            /\ FracEq(tile_freq_adjustment_poly(t, <<t, 2>>), <<0, 1>>)
            /\ FracEq(tile_freq_adjustment_func(t, freq_adjust.max_freq_adjust, <<t, 2>>),
                      freq_adjust.max_freq_adjust)
            /\ AdjustmentZeroAtEndsMaxInMiddle

\* The adjustment has been taken in the middle of a run over more than two
\* cells and equals strength there.
C26_Witness ==
    /\ Adjusted
    /\ freq_adjust.number_of_tiles_to_process >= 4
    /\ 2 * freq_adjust.depth = freq_adjust.number_of_tiles_to_process
    /\ FracEq(freq_adjust.value, freq_adjust.max_freq_adjust)

(* ---- C27 ---- *)

Asked == query # None /\ query.queries >= 1

\* The catalog patterns that agree with the grid around the cell: at every
\* neighbour position the mode considers that lies in the grid and is decided.
MatchingPatterns ==
    {st \in get_super_tile_data(query.sample) :
        \A dy \in {-1, 0, 1} : \A dx \in {-1, 0, 1} :
            LET n == <<query.cell[1] + dy, query.cell[2] + dx>>
            IN  (/\ <<dy, dx>> # <<0, 0>>
                 /\ query.use_8_cardinals \/ dy = 0 \/ dx = 0
                 /\ n \in DOMAIN query.world_state
                 /\ query.world_state[n] # 0)
                    => st[1][3 * (dy + 1) + dx + 2] = query.world_state[n]}

\* C27: the answer of the adjacency query holds exactly the centre tiles of
\* the catalog patterns that agree with every decided in-grid neighbour the
\* mode considers; the probability of a candidate is the summed count of the
\* matching patterns with that centre over the summed count of all matching
\* patterns; the answer is empty iff no pattern matches; and an answer taken
\* from the cache is the one a fresh computation gives.
C27_QueryAnswer ==
    Asked =>
        /\ DOMAIN query.answer = {st[1][5] : st \in MatchingPatterns}
        /\ \A t \in DOMAIN query.answer :
              query.answer[t] = <<SumCounts({st \in MatchingPatterns : st[1][5] = t}),
                                  SumCounts(MatchingPatterns)>>
        /\ (DOMAIN query.answer = {}) <=> (MatchingPatterns = {})
        /\ query.answer = map_to_probabilities(get_cell_potential_states(
                              query.sample, adjacent_states(query.cell, query.world_state),
                              query.use_8_cardinals))

\* A query in 4-cardinal mode whose diagonal neighbour disagrees with every
\* pattern, answered from the cache with a proper part of the centre tiles,
\* of unequal probabilities.
C27_Witness ==
    /\ Asked
    /\ query.queries = 2
    /\ Cardinality(DOMAIN query.cache) = 1
    /\ ~query.use_8_cardinals
    /\ query.cell = <<0, 0>>
    /\ query.world_state[<<1, 1>>] = 2
    /\ query.world_state[<<0, 1>>] = 1
    /\ MatchingPatterns # get_super_tile_data(query.sample)
    /\ \E t, u \in DOMAIN query.answer : query.answer[t][1] < query.answer[u][1]

(* ---- C28 ---- *)

\* What the claim requires when revert_action / apply_action is called.
RevertMeets(ws, node_action) ==
    /\ node_action # <<>>
    /\ ws.grid[node_action[1]] = node_action[2]
    /\ node_action[2] \in DOMAIN ws.counts
    /\ ws.counts[node_action[2]] > 0

ApplyMeets(ws, node_action) ==
    /\ node_action[1] \in ws.open
    /\ ws.grid[node_action[1]] = 0

\* The calls of get_world_state, in its order; a call that raised ends them.
RECURSIVE RevertUpMeets(_, _, _)
RevertUpMeets(ws, p_node, k) ==
    \/ k = 0
    \/ ws.err
    \/ /\ RevertMeets(ws, p_node.action)
       /\ RevertUpMeets(revert_action(ws, p_node.action, Use8), p_node.parent, k - 1)

RECURSIVE CommonAncestorMeets(_, _, _, _)
CommonAncestorMeets(ws, p_node, c_node, i) ==
    \/ p_node.state = c_node.state
    \/ ws.err
    \/ /\ RevertMeets(ws, p_node.action)
       /\ i = 0 \/ CommonAncestorMeets(revert_action(ws, p_node.action, Use8),
                                       p_node.parent, c_node.parent, i - 1)

RECURSIVE ApplyDownMeets(_, _, _)
ApplyDownMeets(ws, c_node, k) ==
    \/ k = 0
    \/ /\ ApplyDownMeets(ws, c_node.parent, k - 1)
       /\ LET before == ApplyDown(ws, c_node.parent, k - 1, Use8)
          IN  before.err \/ ApplyMeets(before, c_node.action)

MaterializeMeets(last, node) ==
    LET start_depth == Min(depth(last), depth(node))
        ws1 == RevertUp(WS, last, depth(last) - start_depth, Use8)
        p_node == Ancestor(last, depth(last) - start_depth)
        c_node == Ancestor(node, depth(node) - start_depth)
        found == CommonAncestor(ws1, p_node, c_node, start_depth, Use8)
    IN  /\ RevertUpMeets(WS, last, depth(last) - start_depth)
        /\ CommonAncestorMeets(ws1, p_node, c_node, start_depth)
        /\ ApplyDownMeets(found.ws, node, depth(node) - found.common_depth)

\* C28: whenever a node is materialized, every apply_action is called with a
\* coordinate that is then in the frontier and undecided, and every
\* revert_action with a coordinate whose cell then holds the action's tile
\* and whose tile counter is positive; materialize never raises and no
\* occurrence counter becomes negative.
C28_CallsMeetPreconditions ==
    [][\A n \in fringe :
          (ExpandsNode(n) /\ depth(n) > 0) =>
              /\ MaterializeMeets(last_node, n)
              /\ last_step' # "raised"
              /\ \A t \in DOMAIN tile_counts' : tile_counts'[t] >= 0]_vars

(* ---- C29 ---- *)

PathCells(m) == {a[1] : a \in PathActions(m)}

\* A node of the search tree that the state still holds.
TreeNodes == fringe \cup ({best_node, last_node} \ {None})

\* C29: along every root-to-node path the actions target pairwise distinct
\* cells, each undecided in the starting grid, and each assigns a non-zero
\* tile; the grid of a node of depth d has exactly d more decided cells than
\* the starting grid; no pre-filled cell is ever overwritten; and a result
\* obtained by completion has no undecided cell.
C29_PathsFillDistinctCells ==
    pc \in {"search", "done", "crashed"} =>
        /\ \A m \in TreeNodes :
              /\ Cardinality(PathActions(m)) = depth(m)
              /\ Cardinality(PathCells(m)) = depth(m)
              /\ \A a \in PathActions(m) : args.starting_state[a[1]] = 0 /\ a[2] # 0
              /\ count_nonzero(Overlay(args.starting_state, PathActions(m)))
                    = count_nonzero(args.starting_state) + depth(m)
        /\ (Materialized /\ last_step # "raised") =>
              count_nonzero(temp_world_state)
                  = count_nonzero(args.starting_state) + depth(last_node)
        /\ \A c \in DOMAIN args.starting_state :
              args.starting_state[c] # 0 => temp_world_state[c] = args.starting_state[c]
        /\ (pc = "done" /\ StoppedComplete) =>
              /\ \A c \in DOMAIN result : result[c] # 0
              /\ \A c \in DOMAIN args.starting_state :
                    args.starting_state[c] # 0 => result[c] = args.starting_state[c]

\* A run on a pre-filled grid has stopped by completion after filling two
\* cells.
C29_Witness ==
    /\ pc = "done"
    /\ StoppedComplete
    /\ starting_state # None
    /\ count_nonzero(args.starting_state) >= 1
    /\ depth(best_node) >= 2
    /\ \A c \in DOMAIN result : result[c] # 0

(* ---- C30 ---- *)

BestDepth == IF best_node = None THEN 0 ELSE depth(best_node)

\* The counter after an expansion, by the way the expansion ended.
CounterFollowsBest ==
    /\ ticker_proxy <= number_of_tiles_to_process
    /\ (stop /\ last_step = "plateau") => ticker_proxy = number_of_tiles_to_process
    /\ ~(stop /\ last_step = "plateau") => ticker_proxy = BestDepth
    /\ (stop /\ last_step = "complete") => ticker_proxy = number_of_tiles_to_process
    /\ (last_step = "dead_end" \/ Exhausted) => ticker_proxy < number_of_tiles_to_process

\* C30: in a single run whose progress counter starts at 0 the best depth
\* only ever increases, by exactly 1 at a time; the counter equals the best
\* depth after every expansion that does not stop by plateau, never exceeds
\* the number T of cells to fill, equals T after a stop by completion or by
\* plateau, and is below T after a dead end or exhaustion.
C30_CounterIsBestDepth ==
    [][pc' \in {"search", "done", "crashed"} =>
          /\ BestDepth' \in {BestDepth, BestDepth + 1}
          /\ CounterFollowsBest']_vars

\* A plateau stop below the last level has raised the counter from the best
\* depth to T.
C30_Witness ==
    /\ pc = "done"
    /\ stop
    /\ last_step = "plateau"
    /\ depth(best_node) >= 1
    /\ depth(best_node) < number_of_tiles_to_process
    /\ ticker_proxy = number_of_tiles_to_process

====
